---- MODULE Spec2Model ----
(***************************************************************************)
(* Application-layer dispatch core (src/app-layer.c): the TCP dispatcher   *)
(* AppLayerHandleTCPData with its collaborators (protocol detector,        *)
(* parser, reassembler replay) as nondeterministic environments.           *)
(*                                                                         *)
(* Bit masks are sets of flag names: a & b is a \cap b, a | b is a \cup b. *)
(* A dispatch call runs to completion under the flow lock, so it is one    *)
(* action; the operators below return the SET of states the call can end   *)
(* in, one per choice of the collaborators.                                *)
(*                                                                         *)
(* The UDP dispatcher AppLayerHandleUdp takes the flow lock itself: its    *)
(* calls are threads that step through the function.  So are the calls of  *)
(* AppLayerGetCtxThread / AppLayerDestroyCtxThread, one context per thread.*)
(***************************************************************************)
EXTENDS Integers, Sequences, FiniteSets, TLC

VARIABLES
    f,              \* Flow: alproto, alproto_ts, alproto_tc, flags, data_al_so_far
    ssn,            \* TcpSession: data_first_seen_dir, flags of the client and server stream
    p,              \* Packet of the last dispatch call: flowflags, app_layer_events
    log,            \* detector / parser / replay invocations of the last call, in order
    r,              \* return value of the last dispatch call
    bug,            \* a BUG_ON fired (the process aborted)
    h,              \* history: protocols and bytes the parser was given so far
    call,           \* the last dispatch call: its arguments and the state at entry
    first_data_dir, \* parser registration: AlpGetFirstDataDir per protocol
    inline          \* StreamTcpInlineMode()

VARIABLES
    uf,             \* Flow of the UDP dispatcher: alproto, flags
    flowlock,       \* holder of that flow's write lock, 0 when free
    upc,            \* per thread: its position in AppLayerHandleUdp
    ulocal,         \* per thread: flags, r, and the unlocks of its call
    ulog,           \* detector / parser invocations on the UDP flow, in order
    ucalls          \* AppLayerHandleUdp calls made so far

VARIABLES
    tctx,           \* per thread: its AppLayerCtxThread, its position in
                    \* AppLayerGetCtxThread / AppLayerDestroyCtxThread, what was released
    segv            \* a thread dereferenced a null pointer and the process died

VARIABLES
    smsgs,          \* the StreamMsgs handed over so far: flags, flow, next, prev
    sq,             \* TcpSession: head and tail of the toserver and the toclient list
    handled,        \* history: the AppLayerHandleTCPMsg calls, in order
    msg_r           \* return value of the last AppLayerHandleTCPMsg call

udpvars == <<uf, flowlock, upc, ulocal, ulog, ucalls>>
ctxvars == <<tctx, segv>>
msgvars == <<smsgs, sq, handled, msg_r>>
othervars == <<udpvars, ctxvars, msgvars>>
vars == <<f, ssn, p, log, r, bug, h, call, first_data_dir, inline, othervars>>

(* ------------------------------ bounds --------------------------------- *)
MaxLen == 1
MaxStartLen == 2
NumProtos == 2
MaxReplayChunks == 1
NumThreads == 2
MaxUdpCalls == 3
MaxMsgs == 4

(* ----------------------------- constants ------------------------------- *)
ALPROTO_UNKNOWN == 0
Protos == 1..NumProtos
AppProtos == {ALPROTO_UNKNOWN} \cup Protos

STREAM_START == "STREAM_START"
STREAM_GAP == "STREAM_GAP"
STREAM_TOSERVER == "STREAM_TOSERVER"
STREAM_TOCLIENT == "STREAM_TOCLIENT"
DirMask == {STREAM_TOSERVER, STREAM_TOCLIENT}

\* "a value that is neither STREAM_TOSERVER, nor STREAM_TOCLIENT": every
\* other bit of the byte, here one name for them all.
APP_LAYER_DATA_ALREADY_SENT_TO_APP_LAYER == {"NOT_TOSERVER_NOT_TOCLIENT"}

FLOW_NO_APPLAYER_INSPECTION == "FLOW_NO_APPLAYER_INSPECTION"
FLOW_PKT_TOSERVER == "FLOW_PKT_TOSERVER"
FLOW_PKT_TOCLIENT == "FLOW_PKT_TOCLIENT"
APP_PROTO_DETECTION_COMPLETED == "APP_PROTO_DETECTION_COMPLETED"

APPLAYER_MISMATCH_PROTOCOL_BOTH_DIRECTIONS == "MISMATCH_PROTOCOL_BOTH_DIRECTIONS"
APPLAYER_WRONG_DIRECTION_FIRST_DATA == "WRONG_DIRECTION_FIRST_DATA"
APPLAYER_DETECT_PROTOCOL_ONLY_ONE_DIRECTION == "DETECT_PROTOCOL_ONLY_ONE_DIRECTION"

(* ------------------------ flags of a chunk ----------------------------- *)
\* flags holds exactly one of TOSERVER / TOCLIENT, optionally START and GAP.
ChunkFlags == { {d} \cup o : d \in DirMask, o \in SUBSET {STREAM_START, STREAM_GAP} }

\* alproto / alproto_otherdir / dir, as chosen from flags.
ThisSlot(flags) == IF STREAM_TOSERVER \in flags THEN "alproto_ts" ELSE "alproto_tc"
OtherSlot(flags) == IF STREAM_TOSERVER \in flags THEN "alproto_tc" ELSE "alproto_ts"
Dir(flags) == IF STREAM_TOSERVER \in flags THEN 0 ELSE 1
DirFlag(flags) == flags \cap DirMask

\* The reassembler hands the client stream with TOSERVER data, the server
\* stream with TOCLIENT data.
StreamOf(flags) == IF STREAM_TOSERVER \in flags THEN "client" ELSE "server"
OpposingStream(stream) == IF stream = "client" THEN "server" ELSE "client"
FlagOfStream(stream) == IF stream = "client" THEN STREAM_TOSERVER ELSE STREAM_TOCLIENT

(* ------------------------ flow-manager macros -------------------------- *)
PmFlag(flags) == IF STREAM_TOSERVER \in flags THEN "FLOW_TS_PM_ALPROTO_DETECT_DONE" ELSE "FLOW_TC_PM_ALPROTO_DETECT_DONE"
PpFlag(flags) == IF STREAM_TOSERVER \in flags THEN "FLOW_TS_PP_ALPROTO_DETECT_DONE" ELSE "FLOW_TC_PP_ALPROTO_DETECT_DONE"
FLOW_IS_PM_DONE(s, flags) == PmFlag(flags) \in s.f.flags
FLOW_IS_PP_DONE(s, flags) == PpFlag(flags) \in s.f.flags
FLOW_RESET_PM_DONE(s, flags) == [s EXCEPT !.f.flags = @ \ {PmFlag(flags)}]
FLOW_RESET_PP_DONE(s, flags) == [s EXCEPT !.f.flags = @ \ {PpFlag(flags)}]
FlowSetSessionNoApplayerInspectionFlag(s) == [s EXCEPT !.f.flags = @ \cup {FLOW_NO_APPLAYER_INSPECTION}]
NoInspection(s) == FLOW_NO_APPLAYER_INSPECTION \in s.f.flags

\* lines 135-138: the early exit.  The mutant tests another flag of the flow.
InspectionDisabledWrongFlag(s) == "FLOW_ALPROTO_DETECT_DONE" \in s.f.flags
InspectionDisabled(s) == FLOW_NO_APPLAYER_INSPECTION \in s.f.flags

(* -------------------------- reassembler macros ------------------------- *)
StreamTcpSetStreamFlagAppProtoDetectionCompleted(s, stream) == [s EXCEPT !.ssn[stream] = @ \cup {APP_PROTO_DETECTION_COMPLETED}]
StreamTcpResetStreamFlagAppProtoDetectionCompleted(s, stream) == [s EXCEPT !.ssn[stream] = @ \ {APP_PROTO_DETECTION_COMPLETED}]

(* ------------------------------ the log -------------------------------- *)
\* One entry per invocation of a collaborator, in program order.  noinsp and
\* first_seen are the flow's NO_APPLAYER_INSPECTION and the session's
\* data_first_seen_dir at the invocation; depth is 0 in the call the
\* reassembler made and 1 in a call made by the replay.
Entry(op, s, flags, depth, arg, from, len) ==
    [op |-> op, dir |-> DirFlag(flags), depth |-> depth, noinsp |-> NoInspection(s),
     first_seen |-> s.ssn.data_first_seen_dir, arg |-> arg, from |-> from, len |-> len]
Logged(s, e) == [s EXCEPT !.log = Append(@, e)]

\* StreamTcpSetSessionNoReassemblyFlag(ssn, dir): the session flag belongs to
\* the reassembler and is not read here; the call is kept in the log.
StreamTcpSetSessionNoReassemblyFlag(s, dir, flags, depth) ==
    Logged(s, Entry("no_reassembly", s, flags, depth, dir, 0, 0))

\* AppLayerDecoderEventsSetEventRaw(p->app_layer_events, ev)
AppLayerDecoderEventsSetEventRaw(s, ev, flags, depth) ==
    Logged([s EXCEPT !.p.app_layer_events = Append(@, ev)], Entry("event", s, flags, depth, ev, 0, 0))

(* ---------------------------- collaborators ---------------------------- *)
\* AlpGetFirstDataDir(f->proto, alproto): the registered first-data mask.
AlpGetFirstDataDir(alproto) == IF alproto = ALPROTO_UNKNOWN THEN {} ELSE first_data_dir[alproto]

\* AlpdGetProto(alpd_tctx, f, data, data_len, IPPROTO_TCP, flags): any
\* protocol or UNKNOWN, and it may mark the pattern matcher and the probing
\* parser done for this direction.  A direction whose two strategies are both
\* done has exhausted its chance: the result is UNKNOWN.
AlpdGetProto(s, flags, data_len, depth) ==
    LET exhausted == FLOW_IS_PM_DONE(s, flags) /\ FLOW_IS_PP_DONE(s, flags)
        found == IF exhausted THEN {ALPROTO_UNKNOWN} ELSE AppProtos
        done == SUBSET {PmFlag(flags), PpFlag(flags)}
    IN  { [s |-> [Logged(s, Entry("detect", s, flags, depth, a, 0, data_len))
                    EXCEPT !.f.flags = @ \cup dn],
           alproto |-> a] : a \in found, dn \in done }

\* AlpParseL7Data(alp_tctx, f, alproto, flags, input, input_len): 0, or a
\* negative error.
AlpParseL7Data(s, alproto, flags, from, len, depth) ==
    { [Logged(s, Entry("parse", s, flags, depth, alproto, from, len))
         EXCEPT !.r = rv, !.h.protos = @ \cup {alproto}] : rv \in {0, -1} }

\* A START chunk begins at the start of the stream, so the parser call of
\* Case S hands over stream bytes [from, from + len).  len is the 32-bit
\* length read as signed: a negative len is a length that wrapped around and
\* reaches far past any chunk.  h.fed is the end of the bytes handed over so
\* far in the direction; the entry keeps what it was before this call.
FedEnd(from, len) == IF len < 0 THEN MaxStartLen + 1 ELSE from + len
Fed(s, flags, from, len, depth) ==
    [Logged(s, Entry("fed", s, flags, depth, s.h.fed[Dir(flags)], from, len))
       EXCEPT !.h.fed[Dir(flags)] = IF FedEnd(from, len) > @ THEN FedEnd(from, len) ELSE @]

\* ssn->data_first_seen_dir = APP_LAYER_DATA_ALREADY_SENT_TO_APP_LAYER
SetDataAlreadySent(s, flags, depth) ==
    [Logged(s, Entry("set_first_seen", s, flags, depth, APP_LAYER_DATA_ALREADY_SENT_TO_APP_LAYER, 0, 0))
       EXCEPT !.ssn.data_first_seen_dir = APP_LAYER_DATA_ALREADY_SENT_TO_APP_LAYER,
              !.h.first_seen = IF s.ssn.data_first_seen_dir = APP_LAYER_DATA_ALREADY_SENT_TO_APP_LAYER
                               THEN @ ELSE s.ssn.data_first_seen_dir]

(* ------------------- AppLayerHandleTCPData, by block ------------------- *)
\* lines 159-162: the carry-over offset.
DataAlSoFar(s, flags, data_len) == IF data_len = 0 THEN 0 ELSE s.f.data_al_so_far[Dir(flags)]

\* lines 154-157, Case G.  The mutant marks both streams.
CaseGapBothStreams(s, flags, depth) ==
    StreamTcpSetSessionNoReassemblyFlag(
        StreamTcpSetStreamFlagAppProtoDetectionCompleted(
            StreamTcpSetStreamFlagAppProtoDetectionCompleted(s, "client"), "server"),
        Dir(flags), flags, depth)
CaseGap(s, flags, depth) ==
    StreamTcpSetSessionNoReassemblyFlag(
        StreamTcpSetStreamFlagAppProtoDetectionCompleted(s, StreamOf(flags)), Dir(flags), flags, depth)

\* lines 183-195: the two directions disagree.  The first mutant lets the
\* protocol detected now win although data was already sent, the second
\* makes the toserver side the canonical one before data was sent.
MismatchResolutionDetectedWins(s, flags, depth) ==
    LET this == ThisSlot(flags)
        other == OtherSlot(flags)
    IN  IF s.f[other] # ALPROTO_UNKNOWN /\ s.f[other] # s.f[this]
        THEN LET e == AppLayerDecoderEventsSetEventRaw(s, APPLAYER_MISMATCH_PROTOCOL_BOTH_DIRECTIONS, flags, depth)
             IN  [e EXCEPT !.f[other] = e.f[this], !.f.alproto = e.f[this]]
        ELSE s
MismatchResolutionToserverWins(s, flags, depth) ==
    LET this == ThisSlot(flags)
        other == OtherSlot(flags)
    IN  IF s.f[other] # ALPROTO_UNKNOWN /\ s.f[other] # s.f[this]
        THEN LET e == AppLayerDecoderEventsSetEventRaw(s, APPLAYER_MISMATCH_PROTOCOL_BOTH_DIRECTIONS, flags, depth)
             IN  IF e.ssn.data_first_seen_dir = APP_LAYER_DATA_ALREADY_SENT_TO_APP_LAYER
                 THEN [e EXCEPT !.f[this] = e.f[other], !.f.alproto = e.f[other]]
                 ELSE IF STREAM_TOSERVER \in flags
                      THEN [e EXCEPT !.f[other] = e.f[this], !.f.alproto = e.f[this]]
                      ELSE [e EXCEPT !.f[this] = e.f[other], !.f.alproto = e.f[other]]
        ELSE s
MismatchResolution(s, flags, depth) ==
    LET this == ThisSlot(flags)
        other == OtherSlot(flags)
    IN  IF s.f[other] # ALPROTO_UNKNOWN /\ s.f[other] # s.f[this]
        THEN LET e == AppLayerDecoderEventsSetEventRaw(s, APPLAYER_MISMATCH_PROTOCOL_BOTH_DIRECTIONS, flags, depth)
             IN  IF e.ssn.data_first_seen_dir = APP_LAYER_DATA_ALREADY_SENT_TO_APP_LAYER
                 THEN [e EXCEPT !.f[this] = e.f[other], !.f.alproto = e.f[other]]
                 ELSE IF STREAM_TOCLIENT \in flags
                      THEN [e EXCEPT !.f[other] = e.f[this], !.f.alproto = e.f[this]]
                      ELSE [e EXCEPT !.f[this] = e.f[other], !.f.alproto = e.f[other]]
        ELSE s

\* lines 197-198.  The mutant marks the stream and leaves f->alproto.
DetectionCompletedStreamOnly(s, flags) ==
    StreamTcpSetStreamFlagAppProtoDetectionCompleted(s, StreamOf(flags))
DetectionCompleted(s, flags) ==
    StreamTcpSetStreamFlagAppProtoDetectionCompleted(
        [s EXCEPT !.f.alproto = s.f[ThisSlot(flags)]], StreamOf(flags))

\* lines 207-208: data was first seen in the other direction.
NeedsReplay(s, flags) ==
    /\ s.ssn.data_first_seen_dir \cap DirMask # {}
    /\ flags \cap s.ssn.data_first_seen_dir = {}

\* lines 210-228: the packet's direction flags, turned for the replay.
FlipFlowFlags(s, stream) ==
    IF stream = "client"
    THEN IF inline
         THEN [s EXCEPT !.p.flowflags = (@ \ {FLOW_PKT_TOSERVER}) \cup {FLOW_PKT_TOCLIENT}]
         ELSE [s EXCEPT !.p.flowflags = (@ \ {FLOW_PKT_TOCLIENT}) \cup {FLOW_PKT_TOSERVER}]
    ELSE IF inline
         THEN [s EXCEPT !.p.flowflags = (@ \ {FLOW_PKT_TOCLIENT}) \cup {FLOW_PKT_TOSERVER}]
         ELSE [s EXCEPT !.p.flowflags = (@ \ {FLOW_PKT_TOSERVER}) \cup {FLOW_PKT_TOCLIENT}]

\* lines 237-253: and turned back.  The mutant turns them back as if the
\* engine never ran in line.
RestoreFlowFlagsOutOfLine(s, stream) ==
    IF stream = "client"
    THEN [s EXCEPT !.p.flowflags = (@ \ {FLOW_PKT_TOSERVER}) \cup {FLOW_PKT_TOCLIENT}]
    ELSE [s EXCEPT !.p.flowflags = (@ \ {FLOW_PKT_TOCLIENT}) \cup {FLOW_PKT_TOSERVER}]
RestoreFlowFlags(s, stream) ==
    IF stream = "client"
    THEN IF inline
         THEN [s EXCEPT !.p.flowflags = (@ \ {FLOW_PKT_TOCLIENT}) \cup {FLOW_PKT_TOSERVER}]
         ELSE [s EXCEPT !.p.flowflags = (@ \ {FLOW_PKT_TOSERVER}) \cup {FLOW_PKT_TOCLIENT}]
    ELSE IF inline
         THEN [s EXCEPT !.p.flowflags = (@ \ {FLOW_PKT_TOSERVER}) \cup {FLOW_PKT_TOCLIENT}]
         ELSE [s EXCEPT !.p.flowflags = (@ \ {FLOW_PKT_TOCLIENT}) \cup {FLOW_PKT_TOSERVER}]

\* goto failure: r = -1.
Failure(s) == [s EXCEPT !.r = -1]

\* lines 254-258: the replay failed.  The mutant marks the client stream only.
ReplayFailedClientOnly(s) ==
    Failure(StreamTcpSetStreamFlagAppProtoDetectionCompleted(
                FlowSetSessionNoApplayerInspectionFlag(s), "client"))
ReplayFailed(s) ==
    Failure(StreamTcpSetStreamFlagAppProtoDetectionCompleted(
                StreamTcpSetStreamFlagAppProtoDetectionCompleted(
                    FlowSetSessionNoApplayerInspectionFlag(s), "client"), "server"))

\* lines 281-289: the parser's first-data direction was not the first seen.
\* The mutant fails the chunk without the event and without disabling the flow.
WrongDirectionFirstDataSilent(s, flags, depth) ==
    Failure(SetDataAlreadySent(
                StreamTcpSetStreamFlagAppProtoDetectionCompleted(
                    StreamTcpSetStreamFlagAppProtoDetectionCompleted(s, "server"), "client"),
                flags, depth))
WrongDirectionFirstData(s, flags, depth) ==
    Failure(SetDataAlreadySent(
                StreamTcpSetStreamFlagAppProtoDetectionCompleted(
                    StreamTcpSetStreamFlagAppProtoDetectionCompleted(
                        FlowSetSessionNoApplayerInspectionFlag(
                            AppLayerDecoderEventsSetEventRaw(s, APPLAYER_WRONG_DIRECTION_FIRST_DATA, flags, depth)),
                        "server"), "client"), flags, depth))

\* lines 298-305, Case R: detected on the wrong direction; start over.
\* FlowCleanupAppLayer frees the parser state of the flow.  The mutant also
\* forgets the direction of the first data; the second mutant leaves the
\* PP_DONE / PM_DONE flags of the direction set.
RetryResetFirstSeen(s, flags, depth) ==
    IF s.f[OtherSlot(flags)] # ALPROTO_UNKNOWN
    THEN [s EXCEPT !.bug = TRUE]
    ELSE LET c == Logged(s, Entry("cleanup", s, flags, depth, s.f[ThisSlot(flags)], 0, 0))
         IN  Failure(FLOW_RESET_PM_DONE(
                 FLOW_RESET_PP_DONE(
                     StreamTcpResetStreamFlagAppProtoDetectionCompleted(
                         [c EXCEPT !.f[ThisSlot(flags)] = ALPROTO_UNKNOWN, !.f.alproto = ALPROTO_UNKNOWN,
                                   !.ssn.data_first_seen_dir = {}],
                         StreamOf(flags)), flags), flags))
RetryResetKeepsDone(s, flags, depth) ==
    IF s.f[OtherSlot(flags)] # ALPROTO_UNKNOWN
    THEN [s EXCEPT !.bug = TRUE]
    ELSE LET c == Logged(s, Entry("cleanup", s, flags, depth, s.f[ThisSlot(flags)], 0, 0))
         IN  Failure(StreamTcpResetStreamFlagAppProtoDetectionCompleted(
                         [c EXCEPT !.f[ThisSlot(flags)] = ALPROTO_UNKNOWN, !.f.alproto = ALPROTO_UNKNOWN],
                         StreamOf(flags)))
RetryReset(s, flags, depth) ==
    IF s.f[OtherSlot(flags)] # ALPROTO_UNKNOWN
    THEN [s EXCEPT !.bug = TRUE]
    ELSE LET c == Logged(s, Entry("cleanup", s, flags, depth, s.f[ThisSlot(flags)], 0, 0))
         IN  Failure(FLOW_RESET_PM_DONE(
                 FLOW_RESET_PP_DONE(
                     StreamTcpResetStreamFlagAppProtoDetectionCompleted(
                         [c EXCEPT !.f[ThisSlot(flags)] = ALPROTO_UNKNOWN, !.f.alproto = ALPROTO_UNKNOWN],
                         StreamOf(flags)), flags), flags))

\* lines 278-307: "pass", or the state a fail branch leaves.  The mutant
\* compares the required direction with the chunk's, not with the first seen.
FirstDataDirCheckChunkDir(s, flags, depth) ==
    LET fdd == AlpGetFirstDataDir(s.f[ThisSlot(flags)])
    IN  IF s.ssn.data_first_seen_dir = APP_LAYER_DATA_ALREADY_SENT_TO_APP_LAYER
        THEN [pass |-> TRUE, s |-> s]
        ELSE IF fdd # {} /\ fdd \cap flags = {}
             THEN [pass |-> FALSE, s |-> WrongDirectionFirstData(s, flags, depth)]
             ELSE [pass |-> TRUE, s |-> s]
FirstDataDirCheck(s, flags, depth) ==
    LET fdd == AlpGetFirstDataDir(s.f[ThisSlot(flags)])
    IN  IF s.ssn.data_first_seen_dir = APP_LAYER_DATA_ALREADY_SENT_TO_APP_LAYER
        THEN [pass |-> TRUE, s |-> s]
        ELSE IF fdd # {} /\ fdd \cap s.ssn.data_first_seen_dir = {}
             THEN [pass |-> FALSE, s |-> WrongDirectionFirstData(s, flags, depth)]
             ELSE IF fdd # {} /\ fdd \cap flags = {}
                  THEN [pass |-> FALSE, s |-> RetryReset(s, flags, depth)]
                  ELSE [pass |-> TRUE, s |-> s]

\* lines 309-315: hand bytes [carry, data_len) to the parser of *alproto.
\* The mutant does not note that data was sent.
ParseDetectedNoSentinel(s, flags, data_len, carry, depth) ==
    { [Fed(u, flags, carry, data_len - carry, depth) EXCEPT !.f.data_al_so_far[Dir(flags)] = 0] :
        u \in AlpParseL7Data(s, s.f[ThisSlot(flags)], flags, carry, data_len - carry, depth) }
ParseDetected(s, flags, data_len, carry, depth) ==
    LET t == SetDataAlreadySent(s, flags, depth)
    IN  { [Fed(u, flags, carry, data_len - carry, depth) EXCEPT !.f.data_al_so_far[Dir(flags)] = 0] :
            u \in AlpParseL7Data(t, t.f[ThisSlot(flags)], flags, carry, data_len - carry, depth) }

\* lines 335-341: the known protocol does not accept this direction first.
OtherDirWrongDirection(s, flags) ==
    LET fdd == AlpGetFirstDataDir(s.f[OtherSlot(flags)])
    IN  /\ s.ssn.data_first_seen_dir # APP_LAYER_DATA_ALREADY_SENT_TO_APP_LAYER
        /\ fdd # {}
        /\ fdd \cap flags = {}

\* lines 351-358: after the parser call of d1.
AfterParseOtherDir(s, flags, data_len, depth) ==
    IF FLOW_IS_PM_DONE(s, flags) /\ FLOW_IS_PP_DONE(s, flags)
    THEN [StreamTcpSetStreamFlagAppProtoDetectionCompleted(
              AppLayerDecoderEventsSetEventRaw(s, APPLAYER_DETECT_PROTOCOL_ONLY_ONE_DIRECTION, flags, depth),
              StreamOf(flags))
            EXCEPT !.f.data_al_so_far[Dir(flags)] = 0]
    ELSE [s EXCEPT !.f.data_al_so_far[Dir(flags)] = data_len]

\* lines 317-358, d1: this direction unknown, the other one known.
CaseOtherDirKnown(s, flags, data_len, carry, depth) ==
    IF OtherDirWrongDirection(s, flags)
    THEN { Failure(StreamTcpSetStreamFlagAppProtoDetectionCompleted(
                       StreamTcpSetStreamFlagAppProtoDetectionCompleted(
                           FlowSetSessionNoApplayerInspectionFlag(s), "server"), "client")) }
    ELSE LET t == IF data_len > 0 THEN SetDataAlreadySent(s, flags, depth) ELSE s
         IN  { AfterParseOtherDir(Fed(u, flags, carry, data_len - carry, depth), flags, data_len, depth) :
                 u \in AlpParseL7Data(t, t.f[OtherSlot(flags)], flags, carry, data_len - carry, depth) }

\* lines 360-366, d2: neither direction known.  The mutant looks at the
\* done flags of this direction only.
CaseNeitherKnownThisDir(s, flags, depth) ==
    IF FLOW_IS_PM_DONE(s, flags) /\ FLOW_IS_PP_DONE(s, flags)
    THEN SetDataAlreadySent(
             StreamTcpSetStreamFlagAppProtoDetectionCompleted(
                 StreamTcpSetStreamFlagAppProtoDetectionCompleted(
                     FlowSetSessionNoApplayerInspectionFlag(s), "server"), "client"), flags, depth)
    ELSE s
CaseNeitherKnown(s, flags, depth) ==
    IF /\ FLOW_IS_PM_DONE(s, {STREAM_TOSERVER}) /\ FLOW_IS_PP_DONE(s, {STREAM_TOSERVER})
       /\ FLOW_IS_PM_DONE(s, {STREAM_TOCLIENT}) /\ FLOW_IS_PP_DONE(s, {STREAM_TOCLIENT})
    THEN SetDataAlreadySent(
             StreamTcpSetStreamFlagAppProtoDetectionCompleted(
                 StreamTcpSetStreamFlagAppProtoDetectionCompleted(
                     FlowSetSessionNoApplayerInspectionFlag(s), "server"), "client"), flags, depth)
    ELSE s

\* lines 383-389, Case N: steady state.
CaseSteady(s, flags, data_len, depth) ==
    IF s.f.alproto # ALPROTO_UNKNOWN
    THEN AlpParseL7Data(s, s.f.alproto, flags, 0, data_len, depth)
    ELSE {s}

(* --------------------------- the dispatcher ---------------------------- *)
RECURSIVE AppLayerHandleTCPData(_, _, _, _)
RECURSIVE ReplayChunks(_, _, _, _)

\* What the reassembler delivers of the opposing stream: up to k chunks, each
\* through a dispatch call of its own on the same flow and packet.
ReplayChunks(S, stream, k, depth) ==
    IF k = 0
    THEN S
    ELSE LET next == UNION { AppLayerHandleTCPData(t, fl, n, depth + 1) :
                               t \in { x \in S : ~x.bug },
                               fl \in { c \in ChunkFlags : FlagOfStream(stream) \in c },
                               n \in 0..MaxLen }
         IN  S \cup ReplayChunks(next, stream, k - 1, depth)

\* StreamTcpReassembleAppLayer / StreamTcpReassembleInlineAppLayer on the
\* opposing stream: the chunks it delivers, and its own result.
StreamTcpReassembleAppLayer(s, stream, flags, depth) ==
    { [s |-> Logged(t, Entry("replay_ret", t, flags, depth, rv, 0, 0)), ret |-> rv] :
        t \in ReplayChunks({Logged(s, Entry("replay", s, flags, depth, stream, 0, 0))},
                           stream, MaxReplayChunks, depth),
        rv \in {0, -1} }

\* lines 207-260: the states after the replay, each with what is left to do.
ReplayOpposing(s, flags, depth) ==
    IF NeedsReplay(s, flags)
    THEN LET stream == StreamOf(flags)
         IN  { IF o.s.bug
               THEN [go |-> FALSE, s |-> o.s]
               ELSE IF o.ret < 0
                    THEN [go |-> FALSE, s |-> ReplayFailed([RestoreFlowFlags(o.s, stream) EXCEPT !.r = 0])]
                    ELSE [go |-> TRUE, s |-> [RestoreFlowFlags(o.s, stream) EXCEPT !.r = 0]] :
               o \in StreamTcpReassembleAppLayer(FlipFlowFlags(s, stream),
                                                 OpposingStream(stream), flags, depth) }
    ELSE { [go |-> TRUE, s |-> s] }

\* lines 182-315, S.c: this direction was detected.  The mutant hands the
\* chunk to the parser first and replays the opposing stream afterwards.
CaseDetectedParseFirst(s, flags, data_len, carry, depth) ==
    LET d == DetectionCompleted(MismatchResolution(s, flags, depth), flags)
    IN  UNION { IF NeedsReplay(d, flags)
                THEN { o.s : o \in StreamTcpReassembleAppLayer(u, OpposingStream(StreamOf(flags)), flags, depth) }
                ELSE {u} :
                u \in ParseDetected(d, flags, data_len, carry, depth) }
CaseDetected(s, flags, data_len, carry, depth) ==
    LET d == DetectionCompleted(MismatchResolution(s, flags, depth), flags)
    IN  UNION { IF ~o.go
                THEN {o.s}
                ELSE LET c == FirstDataDirCheck(o.s, flags, depth)
                     IN  IF c.pass
                         THEN ParseDetected(c.s, flags, data_len, carry, depth)
                         ELSE {c.s} :
                o \in ReplayOpposing(d, flags, depth) }

\* lines 158-368, Case S: detection on a stream start.
CaseStart(s, flags, data_len, depth) ==
    LET carry == DataAlSoFar(s, flags, data_len)
    IN  UNION { IF d.alproto # ALPROTO_UNKNOWN
                THEN CaseDetected([d.s EXCEPT !.f[ThisSlot(flags)] = d.alproto], flags, data_len, carry, depth)
                ELSE IF d.s.f[OtherSlot(flags)] # ALPROTO_UNKNOWN
                     THEN CaseOtherDirKnown(d.s, flags, data_len, carry, depth)
                     ELSE {CaseNeitherKnown(d.s, flags, depth)} :
                d \in AlpdGetProto(s, flags, data_len, depth) }

\* lines 116-397: every state a call can return in.
AppLayerHandleTCPData(s, flags, data_len, depth) ==
    LET e == [s EXCEPT !.r = 0]
    IN  IF InspectionDisabled(e)
        THEN {e}
        ELSE IF e.f[ThisSlot(flags)] = ALPROTO_UNKNOWN /\ STREAM_GAP \in flags
             THEN {CaseGap(e, flags, depth)}
             ELSE IF e.f[ThisSlot(flags)] = ALPROTO_UNKNOWN /\ STREAM_START \in flags
                  THEN CaseStart(e, flags, data_len, depth)
                  ELSE CaseSteady(e, flags, data_len, depth)

(* ------------------------------ the system ----------------------------- *)
Masks == SUBSET DirMask

\* The dispatcher treats every protocol alike, so the registrations are taken
\* up to renaming of the protocols: masks in ascending order.
MaskRank(m) == IF m = {} THEN 0 ELSE IF m = {STREAM_TOSERVER} THEN 1 ELSE IF m = {STREAM_TOCLIENT} THEN 2 ELSE 3
Registrations == { t \in [Protos -> Masks] : \A i, j \in Protos : i < j => MaskRank(t[i]) <= MaskRank(t[j]) }

\* The packet that makes the reassembler deliver a chunk: out of line it is
\* the acknowledging packet of the other direction, in line the packet of
\* the data itself.
EntryFlowFlags(flags) ==
    IF inline
    THEN IF STREAM_TOSERVER \in flags THEN {FLOW_PKT_TOSERVER} ELSE {FLOW_PKT_TOCLIENT}
    ELSE IF STREAM_TOSERVER \in flags THEN {FLOW_PKT_TOCLIENT} ELSE {FLOW_PKT_TOSERVER}

\* The UDP flow before its first datagram, no thread in AppLayerHandleUdp.
Threads == 1..NumThreads
FLOW_ALPROTO_DETECT_DONE == "FLOW_ALPROTO_DETECT_DONE"
NoLocal == [flags |-> {}, r |-> 0, unlocked |-> 0]
UdpIdle ==
    /\ uf = [alproto |-> ALPROTO_UNKNOWN, flags |-> {}]
    /\ flowlock = 0
    /\ upc = [t \in Threads |-> "idle"]
    /\ ulocal = [t \in Threads |-> NoLocal]
    /\ ulog = <<>>
    /\ ucalls = 0

\* No thread has asked for its context yet.
NoCtx == [pc |-> "idle", app_tctx |-> "NULL", alpd_tctx |-> "NULL", alp_tctx |-> "NULL",
          failed |-> "none", ret |-> "none", caller |-> "none",
          alpd_destroyed |-> 0, alp_destroyed |-> 0, freed |-> 0,
          destroyed_unacquired |-> FALSE, null_ctx |-> FALSE]
CtxIdle ==
    /\ tctx = [t \in Threads |-> NoCtx]
    /\ segv = FALSE

\* No StreamMsg was handed over yet: both lists of the session are empty.
MsgIdle ==
    /\ smsgs = <<>>
    /\ sq = [toserver_smsg_head |-> 0, toserver_smsg_tail |-> 0,
             toclient_smsg_head |-> 0, toclient_smsg_tail |-> 0]
    /\ handled = <<>>
    /\ msg_r = 0

OthersIdle == UdpIdle /\ CtxIdle /\ MsgIdle

NoPacket == [flowflags |-> {}, app_layer_events |-> <<>>]
NoCall == [active |-> FALSE, flags |-> {}, data_len |-> 0, f |-> <<>>, ssn |-> <<>>, h |-> <<>>]

Init ==
    /\ f = [alproto |-> ALPROTO_UNKNOWN, alproto_ts |-> ALPROTO_UNKNOWN, alproto_tc |-> ALPROTO_UNKNOWN,
            flags |-> {}, data_al_so_far |-> [d \in 0..1 |-> 0]]
    /\ ssn = [data_first_seen_dir |-> {}, client |-> {}, server |-> {}]
    /\ p = NoPacket
    /\ log = <<>>
    /\ r = 0
    /\ bug = FALSE
    /\ h = [protos |-> {}, fed |-> [d \in 0..1 |-> 0], first_seen |-> {}]
    /\ call = NoCall
    /\ first_data_dir \in Registrations
    /\ inline = FALSE
    /\ OthersIdle

\* The reassembler notes the direction of the first payload bytes of the session.
FirstDataSeen ==
    /\ ~bug
    /\ ~call.active
    /\ ssn.data_first_seen_dir = {}
    /\ \E d \in DirMask : ssn' = [ssn EXCEPT !.data_first_seen_dir = {d}]
    /\ UNCHANGED <<f, p, log, r, bug, h, call, first_data_dir, inline, othervars>>

\* The reassembler delivers one chunk of at most maxlen bytes: a call of
\* AppLayerHandleTCPData.
DeliverChunk(maxlen) ==
    /\ ~bug
    /\ ~call.active
    /\ \E flags \in ChunkFlags, data_len \in 0..maxlen :
         /\ data_len > 0 => ssn.data_first_seen_dir # {}
         /\ LET s0 == [f |-> f, ssn |-> ssn, h |-> h, log |-> <<>>, r |-> 0, bug |-> FALSE,
                       p |-> [flowflags |-> EntryFlowFlags(flags), app_layer_events |-> <<>>]]
            IN  \E t \in AppLayerHandleTCPData(s0, flags, data_len, 0) :
                  /\ f' = t.f
                  /\ ssn' = t.ssn
                  /\ p' = t.p
                  /\ log' = t.log
                  /\ r' = t.r
                  /\ bug' = t.bug
                  /\ h' = t.h
                  /\ call' = [active |-> TRUE, flags |-> flags, data_len |-> data_len,
                              f |-> f, ssn |-> ssn, h |-> h]
    /\ UNCHANGED <<first_data_dir, inline, othervars>>

HandleTCPData == DeliverChunk(MaxLen)

\* The reassembler has taken the result and is done with the packet.
ChunkDone ==
    /\ ~bug
    /\ call.active
    /\ call' = NoCall
    /\ p' = NoPacket
    /\ log' = <<>>
    /\ r' = 0
    /\ UNCHANGED <<f, ssn, bug, h, first_data_dir, inline, othervars>>

Next == FirstDataSeen \/ HandleTCPData \/ ChunkDone

Spec == Init /\ [][Next]_vars

\* The same system with the engine in line or out of line (StreamTcpInlineMode).
InitInline ==
    /\ f = [alproto |-> ALPROTO_UNKNOWN, alproto_ts |-> ALPROTO_UNKNOWN, alproto_tc |-> ALPROTO_UNKNOWN,
            flags |-> {}, data_al_so_far |-> [d \in 0..1 |-> 0]]
    /\ ssn = [data_first_seen_dir |-> {}, client |-> {}, server |-> {}]
    /\ p = NoPacket
    /\ log = <<>>
    /\ r = 0
    /\ bug = FALSE
    /\ h = [protos |-> {}, fed |-> [d \in 0..1 |-> 0], first_seen |-> {}]
    /\ call = NoCall
    /\ first_data_dir \in Registrations
    /\ inline \in BOOLEAN
    /\ OthersIdle

SpecInline == InitInline /\ [][Next]_vars

(* --------------------------- the UDP dispatcher ------------------------ *)
tcpvars == <<f, ssn, p, log, r, bug, h, call, first_data_dir, inline>>

\* The TCP flow at rest, no parser with a first-data direction.
TcpIdle ==
    /\ f = [alproto |-> ALPROTO_UNKNOWN, alproto_ts |-> ALPROTO_UNKNOWN, alproto_tc |-> ALPROTO_UNKNOWN,
            flags |-> {}, data_al_so_far |-> [d \in 0..1 |-> 0]]
    /\ ssn = [data_first_seen_dir |-> {}, client |-> {}, server |-> {}]
    /\ p = NoPacket
    /\ log = <<>>
    /\ r = 0
    /\ bug = FALSE
    /\ h = [protos |-> {}, fed |-> [d \in 0..1 |-> 0], first_seen |-> {}]
    /\ call = NoCall
    /\ first_data_dir = [a \in Protos |-> {}]
    /\ inline = FALSE

\* The TCP dispatcher on such a flow, with chunks of up to MaxStartLen bytes
\* from the reassembler, so that a START chunk can be shorter than an earlier
\* one without being empty.
InitLong == TcpIdle /\ OthersIdle

HandleLongTCPData == DeliverChunk(MaxStartLen)

NextLong == FirstDataSeen \/ HandleLongTCPData \/ ChunkDone

SpecLong == InitLong /\ [][NextLong]_vars

notudp == <<tcpvars, ctxvars, msgvars>>

UdpEntry(op, t, arg) == [op |-> op, t |-> t, arg |-> arg, held |-> flowlock = t]

\* lines 470-476: a thread calls AppLayerHandleUdp for a datagram of the flow.
UdpEnter(t) ==
    /\ upc[t] = "idle"
    /\ ucalls < MaxUdpCalls
    /\ ucalls' = ucalls + 1
    /\ ulocal' = [ulocal EXCEPT ![t] = NoLocal]
    /\ upc' = [upc EXCEPT ![t] = "lock"]
    /\ UNCHANGED <<uf, flowlock, ulog, notudp>>

\* lines 478-485: FLOWLOCK_WRLOCK waits for the lock; flags from the packet.
\* The mutant does not wait.
UdpWrLockNoWait(t) ==
    /\ upc[t] = "lock"
    /\ flowlock' = t
    /\ \E pf \in {{FLOW_PKT_TOSERVER}, {FLOW_PKT_TOCLIENT}} :
         ulocal' = [ulocal EXCEPT ![t].flags =
                       IF FLOW_PKT_TOSERVER \in pf THEN {STREAM_TOSERVER} ELSE {STREAM_TOCLIENT}]
    /\ upc' = [upc EXCEPT ![t] = "check"]
    /\ UNCHANGED <<uf, ulog, ucalls, notudp>>
UdpWrLock(t) ==
    /\ upc[t] = "lock"
    /\ flowlock = 0
    /\ flowlock' = t
    /\ \E pf \in {{FLOW_PKT_TOSERVER}, {FLOW_PKT_TOCLIENT}} :
         ulocal' = [ulocal EXCEPT ![t].flags =
                       IF FLOW_PKT_TOSERVER \in pf THEN {STREAM_TOSERVER} ELSE {STREAM_TOCLIENT}]
    /\ upc' = [upc EXCEPT ![t] = "check"]
    /\ UNCHANGED <<uf, ulog, ucalls, notudp>>

\* line 491: detection only for an unknown flow that never tried.
UdpCheck(t) ==
    /\ upc[t] = "check"
    /\ upc' = [upc EXCEPT ![t] =
                  IF uf.alproto = ALPROTO_UNKNOWN /\ FLOW_ALPROTO_DETECT_DONE \notin uf.flags
                  THEN "detect" ELSE "steady"]
    /\ UNCHANGED <<uf, flowlock, ulocal, ulog, ucalls, notudp>>

\* lines 496-499: f->alproto = AlpdGetProto(...).
UdpDetect(t) ==
    /\ upc[t] = "detect"
    /\ \E a \in AppProtos :
         /\ uf' = [uf EXCEPT !.alproto = a]
         /\ ulog' = Append(ulog, UdpEntry("detect", t, a))
    /\ upc' = [upc EXCEPT ![t] = "detected"]
    /\ UNCHANGED <<flowlock, ulocal, ucalls, notudp>>

\* lines 502-513: FLOW_ALPROTO_DETECT_DONE either way, the parser if detected.
\* The mutant sets the flag only when a protocol was found.
UdpDetectedDoneIfKnown(t) ==
    /\ upc[t] = "detected"
    /\ IF uf.alproto # ALPROTO_UNKNOWN
       THEN /\ uf' = [uf EXCEPT !.flags = @ \cup {FLOW_ALPROTO_DETECT_DONE}]
            /\ ulog' = Append(ulog, UdpEntry("parse", t, uf.alproto))
            /\ \E rv \in {0, -1} : ulocal' = [ulocal EXCEPT ![t].r = rv]
       ELSE UNCHANGED <<uf, ulog, ulocal>>
    /\ upc' = [upc EXCEPT ![t] = "unlock"]
    /\ UNCHANGED <<flowlock, ucalls, notudp>>
UdpDetected(t) ==
    /\ upc[t] = "detected"
    /\ uf' = [uf EXCEPT !.flags = @ \cup {FLOW_ALPROTO_DETECT_DONE}]
    /\ IF uf.alproto # ALPROTO_UNKNOWN
       THEN /\ ulog' = Append(ulog, UdpEntry("parse", t, uf.alproto))
            /\ \E rv \in {0, -1} : ulocal' = [ulocal EXCEPT ![t].r = rv]
       ELSE UNCHANGED <<ulog, ulocal>>
    /\ upc' = [upc EXCEPT ![t] = "unlock"]
    /\ UNCHANGED <<flowlock, ucalls, notudp>>

\* lines 514-530: the flow is past detection.
UdpSteady(t) ==
    /\ upc[t] = "steady"
    /\ IF uf.alproto # ALPROTO_UNKNOWN
       THEN /\ ulog' = Append(ulog, UdpEntry("parse", t, uf.alproto))
            /\ \E rv \in {0, -1} : ulocal' = [ulocal EXCEPT ![t].r = rv]
       ELSE UNCHANGED <<ulog, ulocal>>
    /\ upc' = [upc EXCEPT ![t] = "unlock"]
    /\ UNCHANGED <<uf, flowlock, ucalls, notudp>>

\* line 532: FLOWLOCK_UNLOCK.
UdpUnlock(t) ==
    /\ upc[t] = "unlock"
    /\ flowlock' = IF flowlock = t THEN 0 ELSE flowlock
    /\ ulocal' = [ulocal EXCEPT ![t].unlocked = @ + 1]
    /\ upc' = [upc EXCEPT ![t] = "done"]
    /\ UNCHANGED <<uf, ulog, ucalls, notudp>>

\* lines 533-534: the call returns r.
UdpReturn(t) ==
    /\ upc[t] = "done"
    /\ upc' = [upc EXCEPT ![t] = "idle"]
    /\ UNCHANGED <<uf, flowlock, ulocal, ulog, ucalls, notudp>>

InitUdp == TcpIdle /\ OthersIdle

NextUdp ==
    \E t \in Threads :
        \/ UdpEnter(t)
        \/ UdpWrLock(t)
        \/ UdpCheck(t)
        \/ UdpDetect(t)
        \/ UdpDetected(t)
        \/ UdpSteady(t)
        \/ UdpUnlock(t)
        \/ UdpReturn(t)

SpecUdp == InitUdp /\ [][NextUdp]_vars

(* --------------------------- the thread context ------------------------ *)
notctx == <<tcpvars, udpvars, msgvars>>

\* lines 83-86: SCMalloc, NULL on failure; memset clears both handles.
CtxMalloc(t) ==
    /\ ~segv
    /\ tctx[t].pc = "idle"
    /\ \/ tctx' = [tctx EXCEPT ![t].pc = "alpd", ![t].app_tctx = "alloc",
                                ![t].alpd_tctx = "NULL", ![t].alp_tctx = "NULL"]
       \/ tctx' = [tctx EXCEPT ![t].pc = "error", ![t].failed = "alloc"]
    /\ UNCHANGED <<segv, notctx>>

\* lines 88-89: the detector's handle.
CtxGetAlpd(t) ==
    /\ ~segv
    /\ tctx[t].pc = "alpd"
    /\ \/ tctx' = [tctx EXCEPT ![t].pc = "alp", ![t].alpd_tctx = "held"]
       \/ tctx' = [tctx EXCEPT ![t].pc = "error", ![t].failed = "alpd"]
    /\ UNCHANGED <<segv, notctx>>

\* lines 90-93: the parser's handle.
CtxGetAlp(t) ==
    /\ ~segv
    /\ tctx[t].pc = "alp"
    /\ \/ tctx' = [tctx EXCEPT ![t].pc = "done", ![t].alp_tctx = "held", ![t].ret = "ctx"]
       \/ tctx' = [tctx EXCEPT ![t].pc = "error", ![t].failed = "alp"]
    /\ UNCHANGED <<segv, notctx>>

\* lines 94-95: error: AppLayerDestroyCtxThread(app_tctx), null or not.
CtxError(t) ==
    /\ ~segv
    /\ tctx[t].pc = "error"
    /\ tctx' = [tctx EXCEPT ![t].pc = "destroy_alpd", ![t].caller = "get"]
    /\ UNCHANGED <<segv, notctx>>

\* A handle as AppLayerDestroyCtxThread reads it: through a null context the
\* read is undefined, it faults or yields anything.
ReadHandle(c, field) == IF c.app_tctx = "NULL" THEN {"NULL", "garbage"} ELSE {c[field]}

\* lines 107-108: if (app_tctx->alpd_tctx != NULL) AlpdDestroyCtxThread(...).
DestroyAlpd(t) ==
    /\ ~segv
    /\ tctx[t].pc = "destroy_alpd"
    /\ \/ /\ tctx[t].app_tctx = "NULL"
          /\ segv' = TRUE
          /\ tctx' = [tctx EXCEPT ![t].null_ctx = TRUE]
       \/ /\ segv' = segv
          /\ \E v \in ReadHandle(tctx[t], "alpd_tctx") :
               tctx' = [tctx EXCEPT ![t].pc = "destroy_alp",
                                    ![t].null_ctx = @ \/ tctx[t].app_tctx = "NULL",
                                    ![t].alpd_destroyed = IF v = "held" THEN @ + 1 ELSE @,
                                    ![t].alpd_tctx = IF v = "held" THEN "released" ELSE @,
                                    ![t].destroyed_unacquired = @ \/ v \notin {"NULL", "held"}]
    /\ UNCHANGED notctx

\* lines 109-110: if (app_tctx->alp_tctx != NULL) AlpDestroyCtxThread(...).
DestroyAlp(t) ==
    /\ ~segv
    /\ tctx[t].pc = "destroy_alp"
    /\ \/ /\ tctx[t].app_tctx = "NULL"
          /\ segv' = TRUE
          /\ tctx' = [tctx EXCEPT ![t].null_ctx = TRUE]
       \/ /\ segv' = segv
          /\ \E v \in ReadHandle(tctx[t], "alp_tctx") :
               tctx' = [tctx EXCEPT ![t].pc = "destroy_free",
                                    ![t].null_ctx = @ \/ tctx[t].app_tctx = "NULL",
                                    ![t].alp_destroyed = IF v = "held" THEN @ + 1 ELSE @,
                                    ![t].alp_tctx = IF v = "held" THEN "released" ELSE @,
                                    ![t].destroyed_unacquired = @ \/ v \notin {"NULL", "held"}]
    /\ UNCHANGED notctx

\* line 111: SCFree(app_tctx); a null pointer is left alone.
DestroyFree(t) ==
    /\ ~segv
    /\ tctx[t].pc = "destroy_free"
    /\ tctx' = [tctx EXCEPT ![t].pc = "destroyed",
                            ![t].freed = IF tctx[t].app_tctx = "alloc" THEN @ + 1 ELSE @,
                            ![t].app_tctx = IF @ = "alloc" THEN "freed" ELSE @]
    /\ UNCHANGED <<segv, notctx>>

\* lines 96-98: back in AppLayerGetCtxThread, app_tctx = NULL, return it;
\* line 113: or back in the thread that gave its context up.
CtxReturn(t) ==
    /\ ~segv
    /\ \/ /\ tctx[t].pc = "destroyed"
          /\ tctx[t].caller = "get"
          /\ tctx' = [tctx EXCEPT ![t].pc = "returned", ![t].ret = "NULL"]
       \/ /\ tctx[t].pc = "destroyed"
          /\ tctx[t].caller = "exit"
          /\ tctx' = [tctx EXCEPT ![t].pc = "gone"]
       \/ /\ tctx[t].pc = "done"
          /\ tctx' = [tctx EXCEPT ![t].pc = "returned"]
    /\ UNCHANGED <<segv, notctx>>

\* lines 101-105: a thread that got a context destroys it when it ends.
AppLayerDestroyCtxThread(t) ==
    /\ ~segv
    /\ tctx[t].pc = "returned"
    /\ tctx[t].ret = "ctx"
    /\ tctx' = [tctx EXCEPT ![t].pc = "destroy_alpd", ![t].caller = "exit"]
    /\ UNCHANGED <<segv, notctx>>

InitCtx == TcpIdle /\ OthersIdle

NextCtx ==
    \E t \in Threads :
        \/ CtxMalloc(t)
        \/ CtxGetAlpd(t)
        \/ CtxGetAlp(t)
        \/ CtxError(t)
        \/ DestroyAlpd(t)
        \/ DestroyAlp(t)
        \/ DestroyFree(t)
        \/ CtxReturn(t)
        \/ AppLayerDestroyCtxThread(t)

SpecCtx == InitCtx /\ [][NextCtx]_vars

(* --------------------------- the StreamMsg lists ----------------------- *)
notmsg == <<tcpvars, udpvars, ctxvars>>

\* A message as it comes from the pool: a reference to its flow, links stale.
\* 0 is the null pointer, message k is the k-th handed over.
FreshMsg(flags, flow) == [flags |-> flags, flow |-> flow, next |-> -1, prev |-> -1]

\* lines 416-453: put message m at the end of the list head / tail.  The
\* mutant forgets to move the tail.
StoreSmsgKeepTail(q, ms, m, head, tail) ==
    IF q[head] = 0
    THEN [sq |-> [q EXCEPT ![head] = m, ![tail] = m],
          smsgs |-> [ms EXCEPT ![m].next = 0, ![m].prev = 0]]
    ELSE LET cur == q[tail]
         IN  [sq |-> q,
              smsgs |-> [ms EXCEPT ![cur].next = m, ![m].prev = cur, ![m].next = 0]]
StoreSmsg(q, ms, m, head, tail) ==
    IF q[head] = 0
    THEN [sq |-> [q EXCEPT ![head] = m, ![tail] = m],
          smsgs |-> [ms EXCEPT ![m].next = 0, ![m].prev = 0]]
    ELSE LET cur == q[tail]
         IN  [sq |-> [q EXCEPT ![tail] = m],
              smsgs |-> [ms EXCEPT ![cur].next = m, ![m].prev = cur, ![m].next = 0]]

\* FlowDeReference(&smsg->flow): the reference is dropped and cleared.
FlowDeReference(ms, m) == [ms EXCEPT ![m].flow = "NULL"]

\* lines 399-468: one call, for a message whose flow has a session or not.
AppLayerHandleTCPMsg ==
    /\ Len(smsgs) < MaxMsgs
    /\ \E flags \in SUBSET {STREAM_TOSERVER, STREAM_TOCLIENT}, has_ssn \in BOOLEAN :
         LET m == Len(smsgs) + 1
             flow == IF has_ssn THEN "flow" ELSE "flow_no_ssn"
             ms == Append(smsgs, FreshMsg(flags, flow))
         IN  /\ IF has_ssn
                THEN LET s == IF STREAM_TOSERVER \in flags
                              THEN StoreSmsg(sq, ms, m, "toserver_smsg_head", "toserver_smsg_tail")
                              ELSE StoreSmsg(sq, ms, m, "toclient_smsg_head", "toclient_smsg_tail")
                     IN  /\ sq' = s.sq
                         /\ smsgs' = FlowDeReference(s.smsgs, m)
                ELSE /\ sq' = sq
                     /\ smsgs' = FlowDeReference(ms, m)
             /\ handled' = Append(handled, [smsg |-> m, flags |-> flags, ssn |-> has_ssn, before |-> sq])
    /\ msg_r' = 0
    /\ UNCHANGED notmsg

InitMsg == TcpIdle /\ OthersIdle

NextMsg == AppLayerHandleTCPMsg

SpecMsg == InitMsg /\ [][NextMsg]_vars

(* ------------------------------- claims -------------------------------- *)
Entries(op) == { i \in 1..Len(log) : log[i].op = op }
ThisDir == DirFlag(call.flags)
Sentinel == APP_LAYER_DATA_ALREADY_SENT_TO_APP_LAYER

\* C1: a dispatch call entered while the flow's NO_APPLAYER_INSPECTION is set
\* returns 0, invokes no collaborator, emits no event, and leaves the flow,
\* the session with its streams, and the packet as they were.
C1_EarlyExit ==
    (call.active /\ FLOW_NO_APPLAYER_INSPECTION \in call.f.flags)
        => /\ r = 0
           /\ log = <<>>
           /\ f = call.f
           /\ ssn = call.ssn
           /\ h = call.h
           /\ p = [flowflags |-> EntryFlowFlags(call.flags), app_layer_events |-> <<>>]

\* C1 witness: a non-empty START chunk arrived on a disabled flow.
C1_Witness ==
    /\ call.active
    /\ FLOW_NO_APPLAYER_INSPECTION \in call.f.flags
    /\ STREAM_START \in call.flags
    /\ call.data_len > 0
    /\ call.f[ThisSlot(call.flags)] = ALPROTO_UNKNOWN

\* C2: wherever a dispatch call invokes the detector or the parser, the
\* flow's NO_APPLAYER_INSPECTION is unset at that point.
C2_NoInspectionNoInvocation ==
    \A i \in Entries("detect") \cup Entries("parse") : ~log[i].noinsp

\* C3: over a dispatch call, nested replay calls included, the session's
\* data_first_seen_dir changes only to the sentinel, and never away from it:
\* the values seen at entry, at each invocation and at return form such a chain.
FirstSeenChain == <<call.ssn.data_first_seen_dir>> \o [i \in 1..Len(log) |-> log[i].first_seen] \o <<ssn.data_first_seen_dir>>
C3_FirstSeenMonotonic ==
    call.active
        => \A i \in 1..(Len(FirstSeenChain) - 1) :
              \/ FirstSeenChain[i + 1] = FirstSeenChain[i]
              \/ FirstSeenChain[i + 1] = Sentinel

\* C3 witness: a call took the retry reset of Case R with the first-seen
\* direction named, and a call raised a named direction to the sentinel.
C3_Witness ==
    /\ call.active
    /\ Entries("cleanup") # {}
    /\ ssn.data_first_seen_dir \in {{STREAM_TOSERVER}, {STREAM_TOCLIENT}}

\* C4: while a direction is not yet detected and is delivered again as START
\* chunks from the stream start, the byte ranges handed to the parser ascend
\* without overlap: each begins at or after the end of what was handed over
\* before in that direction, and no length wraps around.
C4_StartRangesAscend ==
    (call.active /\ APP_PROTO_DETECTION_COMPLETED \notin call.ssn[StreamOf(call.flags)])
        => \A i \in Entries("fed") :
              (log[i].dir = ThisDir /\ log[i].len # 0)
                  => (log[i].len > 0 /\ log[i].from >= log[i].arg)

\* C5: every parser invocation of the flow's lifetime carries one protocol.
C5_OneParserProtocol == Cardinality(h.protos) <= 1

\* C6: a flow in steady state (data already sent, the parser fed under
\* flow.alproto) with inspection enabled, whose parser declares a first-data
\* direction, saw its first data in a direction of that mask.
SteadyState ==
    /\ f.alproto # ALPROTO_UNKNOWN
    /\ f.alproto \in h.protos
    /\ ssn.data_first_seen_dir = Sentinel
    /\ FLOW_NO_APPLAYER_INSPECTION \notin f.flags
C6_FirstDataDirHonoured ==
    (SteadyState /\ AlpGetFirstDataDir(f.alproto) # {})
        => AlpGetFirstDataDir(f.alproto) \cap h.first_seen # {}

\* C6 witness: steady state under a parser that wants TOSERVER data first,
\* reached by a call that detected on the TOCLIENT chunk after the replay.
C6_Witness ==
    /\ SteadyState
    /\ AlpGetFirstDataDir(f.alproto) = {STREAM_TOSERVER}
    /\ call.active
    /\ STREAM_TOCLIENT \in call.flags
    /\ Entries("replay") # {}

(* Scenario claims: the state at entry is call.f / call.ssn, the result of
   the detector on the chunk is the first entry of the log. *)
Detected == IF log # <<>> /\ log[1].op = "detect" /\ log[1].depth = 0 THEN log[1].arg ELSE ALPROTO_UNKNOWN
Replayed == { i \in 1..Len(log) : log[i].depth > 0 }
ReplayRet(v) == \E i \in Entries("replay_ret") : log[i].depth = 0 /\ log[i].arg = v
Completed(stream) == APP_PROTO_DETECTION_COMPLETED \in ssn[stream]
Events == p.app_layer_events
ParsedAtDepth0 == { i \in Entries("parse") : log[i].depth = 0 }

\* The state before call B of "wrong direction first": nothing detected yet,
\* first data seen TOCLIENT, a TOSERVER|START chunk detected as a protocol
\* whose parser wants TOSERVER data first.
WrongDirFirstScenario ==
    /\ call.active
    /\ call.flags = {STREAM_TOSERVER, STREAM_START}
    /\ call.f.alproto_ts = ALPROTO_UNKNOWN
    /\ call.f.alproto_tc = ALPROTO_UNKNOWN
    /\ FLOW_NO_APPLAYER_INSPECTION \notin call.f.flags
    /\ call.ssn.data_first_seen_dir = {STREAM_TOCLIENT}
    /\ Detected # ALPROTO_UNKNOWN
    /\ AlpGetFirstDataDir(Detected) = {STREAM_TOSERVER}

\* C7 as stated: call B emits no event, leaves inspection enabled and hands
\* B's TOSERVER bytes to the parser of X.  (Its "returns 0" is left out: the
\* return value would be the parser's.)
C7_AsStated ==
    WrongDirFirstScenario
        => /\ Events = <<>>
           /\ FLOW_NO_APPLAYER_INSPECTION \notin f.flags
           /\ \E i \in ParsedAtDepth0 : log[i].arg = Detected /\ log[i].dir = {STREAM_TOSERVER}

\* C7 amended: call B never leaves the flow enabled under X.  When the replay
\* of the TOCLIENT stream delivers no chunk, call B disables inspection,
\* marks both streams completed, invokes no parser and returns -1; and unless
\* the replay failed it emits WRONG_DIRECTION_FIRST_DATA and sets the sentinel.
C7_WrongDirectionFirstData ==
    WrongDirFirstScenario
        => /\ FLOW_NO_APPLAYER_INSPECTION \in f.flags \/ f.alproto # Detected
           /\ Replayed = {}
                => /\ FLOW_NO_APPLAYER_INSPECTION \in f.flags
                   /\ Completed("client") /\ Completed("server")
                   /\ Entries("parse") = {}
                   /\ r = -1
                   /\ f.alproto = Detected
                   /\ ReplayRet(0)
                        => /\ Events = <<APPLAYER_WRONG_DIRECTION_FIRST_DATA>>
                           /\ ssn.data_first_seen_dir = Sentinel
                   /\ ReplayRet(-1)
                        => /\ Events = <<>>
                           /\ ssn.data_first_seen_dir = {STREAM_TOCLIENT}

\* C7 witness: call B of the scenario, the replay delivering nothing.
C7_Witness == WrongDirFirstScenario /\ Replayed = {} /\ ReplayRet(0) /\ call.data_len > 0

\* The state before the chunk of "retry reset" with the first-seen direction
\* d: nothing detected, a TOCLIENT|START chunk detected as a protocol whose
\* parser wants TOSERVER data first.
RetryScenario(d) ==
    /\ call.active
    /\ call.flags = {STREAM_TOCLIENT, STREAM_START}
    /\ call.f.alproto_ts = ALPROTO_UNKNOWN
    /\ call.f.alproto_tc = ALPROTO_UNKNOWN
    /\ FLOW_NO_APPLAYER_INSPECTION \notin call.f.flags
    /\ call.ssn.data_first_seen_dir = {d}
    /\ Detected # ALPROTO_UNKNOWN
    /\ AlpGetFirstDataDir(Detected) = {STREAM_TOSERVER}

\* What Case R leaves behind.
RetryResetDone ==
    /\ f.alproto = ALPROTO_UNKNOWN
    /\ f.alproto_tc = ALPROTO_UNKNOWN
    /\ f.alproto_ts = ALPROTO_UNKNOWN
    /\ ~Completed("server")
    /\ f.flags \cap {PmFlag({STREAM_TOCLIENT}), PpFlag({STREAM_TOCLIENT})} = {}
    /\ Entries("parse") = {}
    /\ r = -1
    /\ FLOW_NO_APPLAYER_INSPECTION \notin f.flags

\* C8 as stated: with data_first_seen_dir = TOCLIENT the chunk takes Case R.
C8_AsStated == RetryScenario(STREAM_TOCLIENT) => RetryResetDone

\* C8 amended: with data_first_seen_dir = TOSERVER, and the replay of the
\* TOSERVER stream delivering no chunk and not failing, the chunk takes Case
\* R: alproto and alproto_tc are UNKNOWN again, the server stream's detection
\* is not completed, PP_DONE / PM_DONE are cleared for TOCLIENT, no parser
\* call, -1, inspection still enabled, the session's first-seen direction kept.
C8_RetryReset ==
    (RetryScenario(STREAM_TOSERVER) /\ Replayed = {} /\ ReplayRet(0))
        => /\ RetryResetDone
           /\ Entries("cleanup") # {}
           /\ Events = <<>>
           /\ ssn.data_first_seen_dir = {STREAM_TOSERVER}

\* C8 witness: Case R taken, the application-layer state cleaned up.
C8_Witness ==
    /\ RetryScenario(STREAM_TOSERVER)
    /\ Replayed = {}
    /\ ReplayRet(0)
    /\ Entries("cleanup") # {}

\* The state before a mismatch after data was sent: this direction unknown,
\* the other holds Q, the sentinel is set, a START chunk detected as P # Q.
MismatchSentScenario ==
    /\ call.active
    /\ STREAM_START \in call.flags
    /\ STREAM_GAP \notin call.flags
    /\ FLOW_NO_APPLAYER_INSPECTION \notin call.f.flags
    /\ call.f[ThisSlot(call.flags)] = ALPROTO_UNKNOWN
    /\ call.f[OtherSlot(call.flags)] # ALPROTO_UNKNOWN
    /\ call.ssn.data_first_seen_dir = Sentinel
    /\ Detected # ALPROTO_UNKNOWN
    /\ Detected # call.f[OtherSlot(call.flags)]

\* C9: such a call emits MISMATCH_PROTOCOL_BOTH_DIRECTIONS, sets flow.alproto
\* and this direction's slot to Q, keeps the other slot, replays nothing,
\* skips the first-data check, and hands bytes [carry, len) to the parser of Q.
C9_MismatchKeepsEarlier ==
    MismatchSentScenario
        => LET q == call.f[OtherSlot(call.flags)]
               carry == IF call.data_len = 0 THEN 0 ELSE call.f.data_al_so_far[Dir(call.flags)]
           IN  /\ Events = <<APPLAYER_MISMATCH_PROTOCOL_BOTH_DIRECTIONS>>
               /\ f.alproto = q
               /\ f[ThisSlot(call.flags)] = q
               /\ f[OtherSlot(call.flags)] = q
               /\ Entries("replay") = {}
               /\ Entries("cleanup") = {}
               /\ FLOW_NO_APPLAYER_INSPECTION \notin f.flags
               /\ Completed(StreamOf(call.flags))
               /\ ssn.data_first_seen_dir = Sentinel
               /\ Cardinality(Entries("parse")) = 1
               /\ \A i \in Entries("parse") :
                     /\ log[i].arg = q
                     /\ log[i].dir = ThisDir
                     /\ log[i].from = carry
                     /\ log[i].len = call.data_len - carry
               /\ f.data_al_so_far[Dir(call.flags)] = 0

\* C9 witness: such a mismatch on a non-empty chunk.
C9_Witness == MismatchSentScenario /\ call.data_len > 0

\* C10: in a dispatch call for direction A, a parser call in the other
\* direction B is made only by the replay of Case S.c (detection succeeded on
\* A's chunk, the first-seen direction named B), and before any parser call
\* for A's chunk.
C10_ReplayOrdering ==
    call.active
        => \A i \in Entries("parse") :
              log[i].dir # ThisDir
                  => /\ log[i].depth > 0
                     /\ Detected # ALPROTO_UNKNOWN
                     /\ call.ssn.data_first_seen_dir = log[i].dir
                     /\ \E k \in Entries("replay") : k < i /\ log[k].depth = 0
                     /\ \E k \in Entries("replay_ret") : k > i /\ log[k].depth = 0
                     /\ \A j \in Entries("parse") : log[j].dir = ThisDir => i < j

\* C10 witness: a call whose replay fed the parser for B and which then fed
\* it A's chunk.
C10_Witness ==
    /\ call.active
    /\ \E i, j \in Entries("parse") : log[i].dir # ThisDir /\ log[j].dir = ThisDir /\ log[j].depth = 0

\* C11: a dispatch call that replays the opposing stream returns with the
\* packet's direction flags as they were at entry: in line and out of line,
\* for the client and the server stream, whether the replay failed or not.
C11_FlowFlagsRestored ==
    (call.active /\ \E i \in Entries("replay") : log[i].depth = 0)
        => p.flowflags = EntryFlowFlags(call.flags)

\* C11 witness: in line, a replay of the client stream that failed.
C11_Witness ==
    /\ call.active
    /\ inline
    /\ STREAM_TOCLIENT \in call.flags
    /\ ReplayRet(-1)
    /\ r = -1

UdpEntries(op) == { i \in 1..Len(ulog) : ulog[i].op = op }

\* C12: on one UDP flow the detector is invoked at most once, whatever the
\* interleaving of the calling threads; once the attempt is over
\* ALPROTO_DETECT_DONE is set whether or not a protocol was found; and after
\* an attempt that returned UNKNOWN neither detector nor parser is invoked.
C12_UdpDetectsOnce ==
    /\ Cardinality(UdpEntries("detect")) <= 1
    /\ (UdpEntries("detect") # {} /\ \A t \in Threads : upc[t] # "detected")
          => FLOW_ALPROTO_DETECT_DONE \in uf.flags
    /\ (\E i \in UdpEntries("detect") : ulog[i].arg = ALPROTO_UNKNOWN) => Len(ulog) = 1

\* C12 witness: the attempt returned UNKNOWN and every later datagram, from
\* either thread, has been dispatched.
C12_Witness ==
    /\ \E i \in UdpEntries("detect") : ulog[i].arg = ALPROTO_UNKNOWN
    /\ ucalls = MaxUdpCalls
    /\ \A t \in Threads : upc[t] = "idle"

\* C13: a thread reads or writes the flow, and invokes detector and parser,
\* only while it holds the flow's write lock; when its call returns it has
\* released the lock exactly once and no longer holds it, on every path.
C13_UdpLockDiscipline ==
    /\ \A t \in Threads :
          /\ upc[t] \in {"check", "detect", "detected", "steady", "unlock"} => flowlock = t
          /\ upc[t] \in {"idle", "lock", "done"} => flowlock # t
          /\ upc[t] = "done" => ulocal[t].unlocked = 1
          /\ upc[t] \notin {"idle", "done"} => ulocal[t].unlocked = 0
    /\ \A i \in 1..Len(ulog) : ulog[i].held

\* C13 witness: a call returns a parser error while another thread waits for
\* the lock.
C13_Witness ==
    \E t, u \in Threads :
        /\ upc[t] = "done"
        /\ ulocal[t].r = -1
        /\ upc[u] = "lock"

\* C14: whichever of the three acquisitions of AppLayerGetCtxThread fails,
\* the call returns NULL, each handle it had acquired was released exactly
\* once, no handle it never acquired was released, and the cleanup never
\* worked on a null context.
C14_CtxCreationAtomic ==
    /\ ~segv
    /\ \A t \in Threads :
          /\ ~tctx[t].null_ctx
          /\ ~tctx[t].destroyed_unacquired
          /\ (tctx[t].pc = "returned" /\ tctx[t].failed # "none")
                => /\ tctx[t].ret = "NULL"
                   /\ tctx[t].alpd_destroyed = (IF tctx[t].failed = "alp" THEN 1 ELSE 0)
                   /\ tctx[t].alp_destroyed = 0
                   /\ tctx[t].alpd_tctx # "held"
                   /\ tctx[t].app_tctx # "alloc"

\* The messages reached from m by next, at most n of them.
RECURSIVE WalkNext(_, _)
WalkNext(m, n) ==
    IF m < 1 \/ m > Len(smsgs) \/ n = 0 THEN <<>> ELSE <<m>> \o WalkNext(smsgs[m].next, n - 1)

\* The messages of a direction, in the order of their calls: toserver if
\* STREAM_TOSERVER is set, otherwise toclient.
RECURSIVE Enqueued(_, _)
Enqueued(toserver, n) ==
    IF n = 0
    THEN <<>>
    ELSE IF handled[n].ssn /\ ((STREAM_TOSERVER \in handled[n].flags) = toserver)
         THEN Append(Enqueued(toserver, n - 1), handled[n].smsg)
         ELSE Enqueued(toserver, n - 1)

Last(s) == IF s = <<>> THEN 0 ELSE s[Len(s)]

\* C15: after any sequence of AppLayerHandleTCPMsg calls on messages whose
\* flow has a session, walking each list from its head by next yields the
\* messages of that direction in the order they were handed over, the tail is
\* the last of them, the call left the other direction's list as it was, the
\* message's flow reference is cleared, and the call returned 0.
C15_SmsgOrder ==
    /\ WalkNext(sq.toserver_smsg_head, MaxMsgs + 1) = Enqueued(TRUE, Len(handled))
    /\ WalkNext(sq.toclient_smsg_head, MaxMsgs + 1) = Enqueued(FALSE, Len(handled))
    /\ sq.toserver_smsg_tail = Last(Enqueued(TRUE, Len(handled)))
    /\ sq.toclient_smsg_tail = Last(Enqueued(FALSE, Len(handled)))
    /\ handled # <<>>
          => LET c == handled[Len(handled)]
             IN  /\ (c.ssn /\ STREAM_TOSERVER \in c.flags)
                       => /\ sq.toclient_smsg_head = c.before.toclient_smsg_head
                          /\ sq.toclient_smsg_tail = c.before.toclient_smsg_tail
                 /\ (c.ssn /\ STREAM_TOSERVER \notin c.flags)
                       => /\ sq.toserver_smsg_head = c.before.toserver_smsg_head
                          /\ sq.toserver_smsg_tail = c.before.toserver_smsg_tail
    /\ \A m \in 1..Len(smsgs) : smsgs[m].flow = "NULL"
    /\ msg_r = 0

\* C15 witness: three messages in the toserver list, a message without
\* STREAM_TOSERVER in the toclient list.
C15_Witness ==
    /\ Len(WalkNext(sq.toserver_smsg_head, MaxMsgs + 1)) = 3
    /\ Len(WalkNext(sq.toclient_smsg_head, MaxMsgs + 1)) = 1
    /\ smsgs[sq.toclient_smsg_head].flags = {}

DoneFlags == { PmFlag({d}) : d \in DirMask } \cup { PpFlag({d}) : d \in DirMask }
Exhausted == DoneFlags \subseteq f.flags

\* The state before a START chunk that finds no protocol while the other
\* direction has none either.
NeitherKnownScenario ==
    /\ call.active
    /\ STREAM_START \in call.flags
    /\ STREAM_GAP \notin call.flags
    /\ FLOW_NO_APPLAYER_INSPECTION \notin call.f.flags
    /\ call.f.alproto_ts = ALPROTO_UNKNOWN
    /\ call.f.alproto_tc = ALPROTO_UNKNOWN
    /\ log # <<>> /\ log[1].op = "detect" /\ log[1].depth = 0 /\ log[1].arg = ALPROTO_UNKNOWN

\* Such a call: no parser, 0; with PP_DONE and PM_DONE set for both
\* directions it disables the flow, otherwise it changes nothing (the done
\* flags are the detector's).
NeitherKnownOutcome ==
    NeitherKnownScenario
        => /\ Entries("parse") = {}
           /\ Entries("replay") = {}
           /\ r = 0
           /\ [f EXCEPT !.flags = {}] = [call.f EXCEPT !.flags = {}]
           /\ f.flags \ (DoneFlags \cup {FLOW_NO_APPLAYER_INSPECTION}) = call.f.flags \ DoneFlags
           /\ Exhausted
                => /\ FLOW_NO_APPLAYER_INSPECTION \in f.flags
                   /\ Completed("client") /\ Completed("server")
                   /\ ssn.data_first_seen_dir = Sentinel
           /\ ~Exhausted
                => /\ FLOW_NO_APPLAYER_INSPECTION \notin f.flags
                   /\ ssn = call.ssn
                   /\ h = call.h
                   /\ Len(log) = 1

\* A disabled flow stays disabled, and a call on it does nothing.
DisabledStays ==
    FLOW_NO_APPLAYER_INSPECTION \in f.flags
        => /\ FLOW_NO_APPLAYER_INSPECTION \in f'.flags
           /\ (~call.active /\ call'.active) => (r' = 0 /\ log' = <<>> /\ f' = f /\ ssn' = ssn)

\* C16: a START chunk whose detection returns UNKNOWN while the other
\* direction is UNKNOWN too disables the flow (NO_APPLAYER_INSPECTION, both
\* streams completed, sentinel) iff PP_DONE and PM_DONE are set for both
\* directions, and otherwise changes no state; the parser is not invoked and
\* the call returns 0; afterwards every call returns 0 and invokes nothing.
C16_DetectionExhausted == [](NeitherKnownOutcome) /\ [][DisabledStays]_vars

\* C16 witness: detection exhausted by a non-empty chunk.
C16_Witness == NeitherKnownScenario /\ Exhausted /\ call.data_len > 0

\* The state before a chunk with a gap on a direction not detected yet.
GapScenario ==
    /\ call.active
    /\ STREAM_GAP \in call.flags
    /\ FLOW_NO_APPLAYER_INSPECTION \notin call.f.flags
    /\ call.f[ThisSlot(call.flags)] = ALPROTO_UNKNOWN

\* C17: a chunk with STREAM_GAP on a direction whose protocol is UNKNOWN,
\* STREAM_START set or not: no detection, no parser, only this stream marked
\* detection-completed, reassembly disabled for this direction only, the
\* alproto fields and data_first_seen_dir unchanged, 0 returned.
C17_GapBeforeDetection ==
    GapScenario
        => /\ Len(log) = 1
           /\ log[1].op = "no_reassembly"
           /\ log[1].arg = Dir(call.flags)
           /\ ssn = [call.ssn EXCEPT ![StreamOf(call.flags)] = @ \cup {APP_PROTO_DETECTION_COMPLETED}]
           /\ f = call.f
           /\ h = call.h
           /\ p.app_layer_events = <<>>
           /\ r = 0

\* C17 witness: START and GAP in the same flags, the other stream not
\* completed.
C17_Witness ==
    /\ GapScenario
    /\ STREAM_START \in call.flags
    /\ ~Completed(OpposingStream(StreamOf(call.flags)))
    /\ call.data_len > 0

\* C18: whenever a call reaches the retry reset the other direction's
\* protocol is UNKNOWN: the BUG_ON of line 299 never fires.
C18_RetryResetAssertion == ~bug

\* C18 witness: the retry reset reached after a replay that delivered a chunk.
C18_Witness ==
    /\ call.active
    /\ \E i \in Entries("cleanup") : log[i].depth = 0
    /\ Replayed # {}

\* The mismatch events of the last call that were raised before data was sent.
EarlyMismatches ==
    { i \in Entries("event") : /\ log[i].arg = APPLAYER_MISMATCH_PROTOCOL_BOTH_DIRECTIONS
                               /\ log[i].first_seen # Sentinel }

\* C19: a START chunk detected as P while the other direction holds Q # P and
\* no data was sent yet: the protocol detected on the TOCLIENT direction
\* becomes flow.alproto and the value of both slots (P for a TOCLIENT chunk,
\* Q for a TOSERVER chunk), and the mismatch event is raised once.
C19_MismatchBeforeData ==
    \A i \in EarlyMismatches :
        LET detected == log[i - 1].arg
            otherdir == IF log[i].depth = 0 THEN call.f[OtherSlot(log[i].dir)] ELSE Detected
            canonical == IF log[i].dir = {STREAM_TOCLIENT} THEN detected ELSE otherdir
        IN  /\ log[i - 1].op = "detect"
            /\ detected # otherdir
            /\ otherdir # ALPROTO_UNKNOWN
            /\ f.alproto = canonical
            /\ f.alproto_ts = canonical
            /\ f.alproto_tc = canonical
            /\ Cardinality({ k \in Entries("event") :
                               /\ log[k].arg = APPLAYER_MISMATCH_PROTOCOL_BOTH_DIRECTIONS
                               /\ log[k].depth = log[i].depth }) = 1

\* C19 witness: such a mismatch on a TOSERVER chunk.
C19_Witness == \E i \in EarlyMismatches : log[i].dir = {STREAM_TOSERVER}

\* C20: after every dispatch call, failed or not, flow.alproto is UNKNOWN
\* iff both direction slots are, and a slot that is not UNKNOWN equals
\* flow.alproto.
C20_SlotsConsistent ==
    /\ (f.alproto = ALPROTO_UNKNOWN) <=> (f.alproto_ts = ALPROTO_UNKNOWN /\ f.alproto_tc = ALPROTO_UNKNOWN)
    /\ f.alproto_ts \in {ALPROTO_UNKNOWN, f.alproto}
    /\ f.alproto_tc \in {ALPROTO_UNKNOWN, f.alproto}

\* C20 witness: a call that failed and left one direction detected.
C20_Witness ==
    /\ call.active
    /\ r = -1
    /\ f.alproto # ALPROTO_UNKNOWN
    /\ f.alproto_ts # f.alproto_tc

\* C21: a flow the dispatcher has disabled has detection completed on both
\* streams, and the Case R reset, which clears a stream's flag, never runs
\* while the flow is disabled.
C21_DisabledImpliesCompleted ==
    /\ FLOW_NO_APPLAYER_INSPECTION \in f.flags => (Completed("client") /\ Completed("server"))
    /\ \A i \in Entries("cleanup") : ~log[i].noinsp

\* C21 witness: the flow was disabled because the opposing-stream replay of
\* this call failed.
C21_Witness ==
    /\ call.active
    /\ FLOW_NO_APPLAYER_INSPECTION \in f.flags
    /\ FLOW_NO_APPLAYER_INSPECTION \notin call.f.flags
    /\ ReplayRet(-1)
    /\ r = -1

\* C22: at every parser invocation the carry-over offset is at most the
\* chunk length, so the length handed to the parser, data_len - carry, did
\* not wrap around (it is not negative when read as signed).
C22_NoLengthUnderflow ==
    \A i \in Entries("parse") : log[i].from <= log[i].from + log[i].len

====
